---- MODULE Spec2Model ----
(***************************************************************************)
(* Model of services/seasons/service.go: the seasons Service, its          *)
(* per-season Handle and the six request methods (Rewards, UserRank,       *)
(* UserFollowers, List, Machines, ActiveMachine).                          *)
(*                                                                         *)
(* Every method is the same sequence: call the generated v4 client with    *)
(* the limiter-wrapped context, return on a transport error, decode with   *)
(* common.Parse, return on a decode error, assemble the envelope.          *)
(*                                                                         *)
(* The generated v4 client, the limiter and common.Parse live outside      *)
(* service.go; they are modelled from the specification (admission wait    *)
(* on the wrapped context, transport outcome, decode that fails on a       *)
(* non-2xx status or a malformed body).                                    *)
(***************************************************************************)
EXTENDS Integers, Sequences, FiniteSets, TLC

\* ---------------------------------------------------------------- bounds

MaxSeasonId == 2   \* season ids are 1..MaxSeasonId
MaxPayload  == 1   \* decoded payloads are 0..MaxPayload (0 is the zero value)
MaxPermits  == 1   \* burst of the client's rate limiter

StatusOK == 200    \* the status that keys parsed.JSON200

\* The two concurrent callers of the independence property; a caller starts
\* a new call once the previous one has returned, so call sequences of any
\* length occur.
Calls == {"c1", "c2"}

\* The client the service is built on, and another client of the program.
TheClient == "clientA"
Clients   == {TheClient, "clientB"}
\* 200, another 2xx status, and a non-2xx status.
Statuses == {StatusOK, 201, 404}
Is2xx(s) == s \in 200..299
Payloads == 0..MaxPayload
SeasonIds == 1..MaxSeasonId

HandleOps  == {"Rewards", "UserRank", "UserFollowers"}
ServiceOps == {"List", "Machines", "ActiveMachine"}
Ops == HandleOps \cup ServiceOps

\* ---------------------------------------------------------------- values

NilErr       == "nil"
ErrCanceled  == "context canceled"
ErrTransport == "transport error"
ErrAborted   == "request aborted: context canceled"
ErrDecode    == "decode error"
ErrStatus    == "unexpected status"

AdmissionErrs == {ErrCanceled}
TransportErrs == {ErrTransport, ErrAborted}
DecodeErrs    == {ErrDecode, ErrStatus}

ZeroData == 0
ZeroMeta == [StatusCode |-> 0]

\* A nil *http.Response.
NoResp == [status |-> 0, wellformed |-> FALSE, data |-> 0]

\* The responses a server can give: a status and a body that is either
\* malformed or a JSON document. Under 200 the document carries any payload;
\* under another status it carries a non-zero one, which no method may hand
\* out as Data.
Responses ==
    { [status |-> StatusOK, wellformed |-> TRUE, data |-> p] : p \in Payloads }
    \cup { [status |-> s, wellformed |-> TRUE, data |-> MaxPayload] : s \in Statuses \ {StatusOK} }
    \cup { [status |-> s, wellformed |-> FALSE, data |-> 0] : s \in Statuses }

\* A nil handle pointer (no handle held).
NoHandle == [client |-> "none", id |-> 0]

\* parsed.JSON200 is a pointer: present = FALSE is nil.
NilJSON200 == [present |-> FALSE, Data |-> ZeroData]
ZeroParsed == [JSON200 |-> NilJSON200]

NoReq == [client |-> "none", endpoint |-> "none", id |-> 0]
NoOut == [resp |-> NoResp, err |-> NilErr]
NoRet == [type |-> "none", Data |-> ZeroData, ResponseMeta |-> ZeroMeta, err |-> NilErr]

EnvelopeType(o) ==
    CASE o = "Rewards"       -> "RewardsResponse"
      [] o = "UserRank"      -> "UserRankResponse"
      [] o = "UserFollowers" -> "UserFollowersResponse"
      [] o = "List"          -> "ListResponse"
      [] o = "Machines"      -> "MachinesResponse"
      [] o = "ActiveMachine" -> "ActiveMachineResponse"
      [] OTHER               -> "none"

Endpoint(o) ==
    CASE o = "Rewards"       -> "GetSeasonRewards"
      [] o = "UserRank"      -> "GetSeasonUserRank"
      [] o = "UserFollowers" -> "GetSeasonUserFollowers"
      [] o = "List"          -> "GetSeasonList"
      [] o = "Machines"      -> "GetSeasonMachines"
      [] o = "ActiveMachine" -> "GetSeasonMachineActive"
      [] OTHER               -> "none"

\* ---------------------------------------------------------------- state

VARIABLES
    base,        \* the Service: base.Client is its client
    permits,     \* permits[cl]: permits left in client cl's limiter
    handle,      \* handle[c]: the *Handle caller c holds (NoHandle: none)
    seasonArg,   \* seasonArg[c]: the id caller c gave to Season
    pc,          \* pc[c]: where caller c's current call stands
    op,          \* op[c]: the method caller c is in
    ctxDone,     \* ctxDone[c]: caller c's context is cancelled
    limited,     \* limited[c]: the context handed to the v4 client is limiter-wrapped
    req,         \* req[c]: the request handed to the v4 client
    granted,     \* granted[c]: the limiter granted this call a permit
    cancelledFirst, \* cancelledFirst[c]: the context was cancelled before a permit was granted
    opCalls,     \* opCalls[c]: invocations of the generated client operation
    httpSent,    \* httpSent[c]: requests the v4 client sent for this call
    parseCalls,  \* parseCalls[c]: common.Parse invocations of this call
    netOut,      \* netOut[c]: what the v4 client returned (resp, err)
    ret,         \* ret[c]: what the method returned (envelope, err)
    steps        \* steps[c]: the steps the call performed, in order

vars == <<base, permits, handle, seasonArg, pc, op, ctxDone, limited, req,
          granted, cancelledFirst, opCalls, httpSent, parseCalls, netOut, ret, steps>>

callVars == <<pc, op, ctxDone, limited, req, granted, cancelledFirst,
              opCalls, httpSent, parseCalls, netOut, ret, steps>>

\* ------------------------------------------------- collaborators (decode)

\* The generated per-endpoint decode function: a malformed body is a parse
\* error; otherwise the payload is stored under the status that keys it.
ParseResponse(resp) ==
    IF ~resp.wellformed
    THEN [parsed |-> ZeroParsed, err |-> ErrDecode]
    ELSE [parsed |-> [JSON200 |-> IF resp.status = StatusOK
                                  THEN [present |-> TRUE, Data |-> resp.data]
                                  ELSE NilJSON200],
          err |-> NilErr]

\* common.Parse: the ResponseMeta is taken from the raw response, then the
\* decode function runs; a non-2xx status or a malformed body is an error.
\* What the decode function stored under the status is handed on as it is.
Parse(resp) ==
    LET meta == [StatusCode |-> resp.status]
        r    == ParseResponse(resp)
    IN  IF ~Is2xx(resp.status)
        THEN [parsed |-> ZeroParsed, meta |-> meta, err |-> ErrStatus]
        ELSE IF r.err # NilErr
        THEN [parsed |-> ZeroParsed, meta |-> meta, err |-> r.err]
        ELSE [parsed |-> r.parsed, meta |-> meta, err |-> NilErr]

\* ------------------------------------------------------ service.go, methods

\* NewService: the service's base holds the client.
NewService(client) == [Client |-> client]

\* Season that does not store the id it is given.
NewHandleZeroId(s, id) == [client |-> s.Client, id |-> 0]

\* Season: &Handle{client: s.base.Client, id: id}
NewHandle(s, id) == [client |-> s.Client, id |-> id]

\* Limiter().Wrap(ctx): the context handed to the v4 client is admission-bound.
Wrap(done) == [done |-> done, limited |-> TRUE]

\* A transport failure reported under one generic error.
TransportFailureGeneric(type, err) ==
    [ret |-> [type |-> type, Data |-> ZeroData, ResponseMeta |-> ZeroMeta, err |-> ErrTransport],
     parsed |-> 0, steps |-> <<>>, panic |-> FALSE]

\* if err != nil { return XResponse{ResponseMeta: common.ResponseMeta{}}, err }
TransportFailure(type, err) ==
    [ret |-> [type |-> type, Data |-> ZeroData, ResponseMeta |-> ZeroMeta, err |-> err],
     parsed |-> 0, steps |-> <<>>, panic |-> FALSE]

\* A decode failure that returns an empty ResponseMeta.
DecodeFailureDropsMeta(type, meta, err) ==
    [ret |-> [type |-> type, Data |-> ZeroData, ResponseMeta |-> ZeroMeta, err |-> err],
     parsed |-> 1, steps |-> <<"decode">>, panic |-> FALSE]

\* if err != nil { return XResponse{ResponseMeta: meta}, err }
DecodeFailure(type, meta, err) ==
    [ret |-> [type |-> type, Data |-> ZeroData, ResponseMeta |-> meta, err |-> err],
     parsed |-> 1, steps |-> <<"decode">>, panic |-> FALSE]

\* A success that leaves Data unset.
SuccessDropsData(type, parsed, meta) ==
    [ret |-> [type |-> type, Data |-> ZeroData, ResponseMeta |-> meta, err |-> NilErr],
     parsed |-> 1, steps |-> <<"decode", "assemble">>, panic |-> FALSE]

\* return XResponse{Data: parsed.JSON200.Data, ResponseMeta: meta}, nil
\* (parsed.JSON200 is dereferenced: a nil pointer panics)
Success(type, parsed, meta) ==
    IF ~parsed.JSON200.present
    THEN [ret |-> NoRet, parsed |-> 1, steps |-> <<"decode">>, panic |-> TRUE]
    ELSE [ret |-> [type |-> type, Data |-> parsed.JSON200.Data,
                   ResponseMeta |-> meta, err |-> NilErr],
          parsed |-> 1, steps |-> <<"decode", "assemble">>, panic |-> FALSE]

\* A body that decodes before it looks at the transport error.
AfterCallParsesFirst(type, resp, err) ==
    LET p == Parse(resp)
    IN  IF err # NilErr
        THEN [ret |-> [type |-> type, Data |-> ZeroData, ResponseMeta |-> p.meta, err |-> err],
              parsed |-> 1, steps |-> <<"decode">>, panic |-> FALSE]
        ELSE IF p.err # NilErr
             THEN DecodeFailure(type, p.meta, p.err)
             ELSE Success(type, p.parsed, p.meta)

\* A body that returns the body's data together with a decode error.
AfterCallKeepsData(type, resp, err) ==
    IF err # NilErr
    THEN TransportFailure(type, err)
    ELSE LET p == Parse(resp)
         IN  IF p.err # NilErr
             THEN [ret |-> [type |-> type, Data |-> resp.data, ResponseMeta |-> p.meta,
                            err |-> p.err],
                   parsed |-> 1, steps |-> <<"decode">>, panic |-> FALSE]
             ELSE Success(type, p.parsed, p.meta)

\* A body that decodes a second time when the first decode fails.
AfterCallRetriesDecode(type, resp, err) ==
    IF err # NilErr
    THEN TransportFailure(type, err)
    ELSE LET p == Parse(resp)
         IN  IF p.err # NilErr
             THEN [ret |-> [type |-> type, Data |-> ZeroData, ResponseMeta |-> p.meta,
                            err |-> p.err],
                   parsed |-> 2, steps |-> <<"decode", "decode">>, panic |-> FALSE]
             ELSE Success(type, p.parsed, p.meta)

\* The method body after the v4 client has returned (resp, err).
AfterCall(type, resp, err) ==
    IF err # NilErr
    THEN TransportFailure(type, err)
    ELSE LET p == Parse(resp)
         IN  IF p.err # NilErr
             THEN DecodeFailure(type, p.meta, p.err)
             ELSE Success(type, p.parsed, p.meta)

RewardsReturn(resp, err)       == AfterCall("RewardsResponse", resp, err)
UserRankReturn(resp, err)      == AfterCall("UserRankResponse", resp, err)
UserFollowersReturn(resp, err) == AfterCall("UserFollowersResponse", resp, err)
ListReturn(resp, err)          == AfterCall("ListResponse", resp, err)
MachinesReturn(resp, err)      == AfterCall("MachinesResponse", resp, err)
ActiveMachineReturn(resp, err) == AfterCall("ActiveMachineResponse", resp, err)

\* Methods that keep the last response in a field shared by all calls.
MethodReturnSharedResp(o, resp, err) ==
    LET others == { d \in Calls : pc[d] = "done" /\ netOut[d].err = NilErr }
        shared == IF others = {} \/ err # NilErr
                  THEN resp
                  ELSE netOut[CHOOSE d \in others : TRUE].resp
    IN  AfterCall(EnvelopeType(o), shared, err)

MethodReturn(o, resp, err) ==
    CASE o = "Rewards"       -> RewardsReturn(resp, err)
      [] o = "UserRank"      -> UserRankReturn(resp, err)
      [] o = "UserFollowers" -> UserFollowersReturn(resp, err)
      [] o = "List"          -> ListReturn(resp, err)
      [] o = "Machines"      -> MachinesReturn(resp, err)
      [] o = "ActiveMachine" -> ActiveMachineReturn(resp, err)

\* ---------------------------------------------------------------- Init

Init ==
    /\ base = NewService(TheClient)
    /\ permits = [cl \in Clients |-> MaxPermits]
    /\ handle = [c \in Calls |-> NoHandle]
    /\ seasonArg = [c \in Calls |-> 0]
    /\ pc = [c \in Calls |-> "idle"]
    /\ op = [c \in Calls |-> "none"]
    /\ ctxDone = [c \in Calls |-> FALSE]
    /\ limited = [c \in Calls |-> FALSE]
    /\ req = [c \in Calls |-> NoReq]
    /\ granted = [c \in Calls |-> FALSE]
    /\ cancelledFirst = [c \in Calls |-> FALSE]
    /\ opCalls = [c \in Calls |-> 0]
    /\ httpSent = [c \in Calls |-> 0]
    /\ parseCalls = [c \in Calls |-> 0]
    /\ netOut = [c \in Calls |-> NoOut]
    /\ ret = [c \in Calls |-> NoRet]
    /\ steps = [c \in Calls |-> <<>>]

\* ---------------------------------------------------------------- actions

\* h := s.Season(id)
Season(c, id) ==
    /\ pc[c] = "idle"
    /\ handle' = [handle EXCEPT ![c] = NewHandle(base, id)]
    /\ seasonArg' = [seasonArg EXCEPT ![c] = id]
    /\ UNCHANGED <<base, permits, callVars>>

\* The caller drops its reference to the handle.
DropHandle(c) ==
    /\ pc[c] = "idle"
    /\ handle[c] # NoHandle
    /\ handle' = [handle EXCEPT ![c] = NoHandle]
    /\ seasonArg' = [seasonArg EXCEPT ![c] = 0]
    /\ UNCHANGED <<base, permits, callVars>>

\* client.V4().GetX(client.Limiter().Wrap(ctx), id): the method calls the
\* generated client operation, whatever the state of the context, with the
\* wrapped context and the id; the operation then waits for admission.
Invoke(c, o, client, id, done) ==
    LET wctx == Wrap(done)
    IN  /\ pc[c] = "idle"
        /\ pc' = [pc EXCEPT ![c] = "admission"]
        /\ op' = [op EXCEPT ![c] = o]
        /\ ctxDone' = [ctxDone EXCEPT ![c] = wctx.done]
        /\ limited' = [limited EXCEPT ![c] = wctx.limited]
        /\ req' = [req EXCEPT ![c] = [client |-> client, endpoint |-> Endpoint(o), id |-> id]]
        /\ granted' = [granted EXCEPT ![c] = FALSE]
        /\ cancelledFirst' = [cancelledFirst EXCEPT ![c] = wctx.done]
        /\ opCalls' = [opCalls EXCEPT ![c] = 1]
        /\ httpSent' = [httpSent EXCEPT ![c] = 0]
        /\ parseCalls' = [parseCalls EXCEPT ![c] = 0]
        /\ netOut' = [netOut EXCEPT ![c] = NoOut]
        /\ ret' = [ret EXCEPT ![c] = NoRet]
        /\ steps' = [steps EXCEPT ![c] = <<"admission">>]
        /\ UNCHANGED <<base, permits, handle, seasonArg>>

Rewards(c) ==
    /\ handle[c] # NoHandle
    /\ \E done \in BOOLEAN : Invoke(c, "Rewards", handle[c].client, handle[c].id, done)

UserRank(c) ==
    /\ handle[c] # NoHandle
    /\ \E done \in BOOLEAN : Invoke(c, "UserRank", handle[c].client, handle[c].id, done)

UserFollowers(c) ==
    /\ handle[c] # NoHandle
    /\ \E done \in BOOLEAN : Invoke(c, "UserFollowers", handle[c].client, handle[c].id, done)

List(c) ==
    \E done \in BOOLEAN : Invoke(c, "List", base.Client, 0, done)

Machines(c) ==
    \E done \in BOOLEAN : Invoke(c, "Machines", base.Client, 0, done)

ActiveMachine(c) ==
    \E done \in BOOLEAN : Invoke(c, "ActiveMachine", base.Client, 0, done)

\* The caller cancels its context while the call is pending.
Cancel(c) ==
    /\ pc[c] \in {"admission", "inflight"}
    /\ ~ctxDone[c]
    /\ ctxDone' = [ctxDone EXCEPT ![c] = TRUE]
    /\ cancelledFirst' = [cancelledFirst EXCEPT ![c] = ~granted[c]]
    /\ UNCHANGED <<base, permits, handle, seasonArg, pc, op, limited, req,
                   granted, opCalls, httpSent, parseCalls, netOut, ret, steps>>

\* The v4 client has returned (resp, err): the rest of the method runs.
Complete(c, resp, err) ==
    LET r == MethodReturn(op[c], resp, err)
    IN  /\ netOut' = [netOut EXCEPT ![c] = [resp |-> resp, err |-> err]]
        /\ ret' = [ret EXCEPT ![c] = r.ret]
        /\ parseCalls' = [parseCalls EXCEPT ![c] = @ + r.parsed]
        /\ steps' = [steps EXCEPT ![c] = @ \o r.steps]
        /\ pc' = [pc EXCEPT ![c] = IF r.panic THEN "panicked" ELSE "done"]

\* The limiter admits the call: a permit is taken and the request is sent.
\* A context that is not limiter-wrapped passes without a permit.
Admit(c) ==
    /\ pc[c] = "admission"
    /\ ~ctxDone[c]
    /\ limited[c] => permits[req[c].client] > 0
    /\ permits' = IF limited[c]
                  THEN [permits EXCEPT ![req[c].client] = @ - 1]
                  ELSE permits
    /\ granted' = [granted EXCEPT ![c] = limited[c]]
    /\ httpSent' = [httpSent EXCEPT ![c] = @ + 1]
    /\ steps' = [steps EXCEPT ![c] = Append(@, "network")]
    /\ pc' = [pc EXCEPT ![c] = "inflight"]
    /\ UNCHANGED <<base, handle, seasonArg, op, ctxDone, limited, req,
                   cancelledFirst, opCalls, parseCalls, netOut, ret>>

\* The context is cancelled while the call waits for admission: the v4
\* client returns the cancellation error and no request is sent.
AdmissionCancelled(c) ==
    /\ pc[c] = "admission"
    /\ ctxDone[c]
    /\ Complete(c, NoResp, ErrCanceled)
    /\ UNCHANGED <<base, permits, handle, seasonArg, op, ctxDone, limited, req,
                   granted, cancelledFirst, opCalls, httpSent>>

\* The request fails in transport; once the context is cancelled the failure
\* may be the abort of the in-flight request.
TransportError(c) ==
    /\ pc[c] = "inflight"
    /\ \E e \in (IF ctxDone[c] THEN TransportErrs ELSE {ErrTransport}) :
          Complete(c, NoResp, e)
    /\ UNCHANGED <<base, permits, handle, seasonArg, op, ctxDone, limited, req,
                   granted, cancelledFirst, opCalls, httpSent>>

\* The server answers.
TransportResponse(c) ==
    /\ pc[c] = "inflight"
    /\ \E resp \in Responses : Complete(c, resp, NilErr)
    /\ UNCHANGED <<base, permits, handle, seasonArg, op, ctxDone, limited, req,
                   granted, cancelledFirst, opCalls, httpSent>>

\* The caller takes the result; its next call starts afresh.
Receive(c) ==
    /\ pc[c] = "done"
    /\ pc' = [pc EXCEPT ![c] = "idle"]
    /\ op' = [op EXCEPT ![c] = "none"]
    /\ ctxDone' = [ctxDone EXCEPT ![c] = FALSE]
    /\ limited' = [limited EXCEPT ![c] = FALSE]
    /\ req' = [req EXCEPT ![c] = NoReq]
    /\ granted' = [granted EXCEPT ![c] = FALSE]
    /\ cancelledFirst' = [cancelledFirst EXCEPT ![c] = FALSE]
    /\ opCalls' = [opCalls EXCEPT ![c] = 0]
    /\ httpSent' = [httpSent EXCEPT ![c] = 0]
    /\ parseCalls' = [parseCalls EXCEPT ![c] = 0]
    /\ netOut' = [netOut EXCEPT ![c] = NoOut]
    /\ ret' = [ret EXCEPT ![c] = NoRet]
    /\ steps' = [steps EXCEPT ![c] = <<>>]
    /\ UNCHANGED <<base, permits, handle, seasonArg>>

\* The limiter's policy returns a permit.
Refill(cl) ==
    /\ permits[cl] < MaxPermits
    /\ permits' = [permits EXCEPT ![cl] = @ + 1]
    /\ UNCHANGED <<base, handle, seasonArg, callVars>>

Next ==
    \/ \E c \in Calls, id \in SeasonIds : Season(c, id)
    \/ \E c \in Calls : DropHandle(c)
    \/ \E c \in Calls : Rewards(c)
    \/ \E c \in Calls : UserRank(c)
    \/ \E c \in Calls : UserFollowers(c)
    \/ \E c \in Calls : List(c)
    \/ \E c \in Calls : Machines(c)
    \/ \E c \in Calls : ActiveMachine(c)
    \/ \E c \in Calls : Cancel(c)
    \/ \E c \in Calls : Admit(c)
    \/ \E c \in Calls : AdmissionCancelled(c)
    \/ \E c \in Calls : TransportError(c)
    \/ \E c \in Calls : TransportResponse(c)
    \/ \E c \in Calls : Receive(c)
    \/ \E cl \in Clients : Refill(cl)

Spec == Init /\ [][Next]_vars

TypeOK ==
    /\ base \in [Client : Clients]
    /\ permits \in [Clients -> 0..MaxPermits]
    /\ \A c \in Calls :
        /\ pc[c] \in {"idle", "admission", "inflight", "done", "panicked"}
        /\ op[c] \in Ops \cup {"none"}
        /\ opCalls[c] \in 0..1
        /\ httpSent[c] \in 0..1
        /\ parseCalls[c] \in 0..1

\* ---------------------------------------------------------------- claims

Done(c) == pc[c] = "done"

\* What the decode step makes of the response the call received.
Decoded(c) == Parse(netOut[c].resp)

NetFailed(c)    == Done(c) /\ netOut[c].err # NilErr
DecodeFailed(c) == Done(c) /\ netOut[c].err = NilErr /\ Decoded(c).err # NilErr
AllSucceeded(c) == Done(c) /\ netOut[c].err = NilErr /\ Decoded(c).err = NilErr

\* C1: a call whose context is cancelled before a permit is granted (also
\* one cancelled before the method is called) issues the network operation
\* zero times, and returns the cancellation error.
C1_NoNetworkOperation ==
    \A c \in Calls :
        cancelledFirst[c] =>
            /\ opCalls[c] = 0
            /\ httpSent[c] = 0
            /\ Done(c) => ret[c].err = ErrCanceled

\* C2: whenever the returned error is non-nil, Data is the zero value.
C2_ZeroDataOnError ==
    \A c \in Calls : (Done(c) /\ ret[c].err # NilErr) => ret[c].Data = ZeroData

C2_Witness ==
    \E c \in Calls :
        /\ Done(c) /\ ret[c].err \in DecodeErrs
        /\ netOut[c].resp.data # ZeroData /\ ret[c].Data = ZeroData

\* C3: when the network call returns an error, the method returns the zero
\* envelope with a zero ResponseMeta and that error, and Parse is not called.
C3_TransportErrorNoDecode ==
    \A c \in Calls :
        NetFailed(c) =>
            /\ ret[c] = [type |-> EnvelopeType(op[c]), Data |-> ZeroData,
                         ResponseMeta |-> ZeroMeta, err |-> netOut[c].err]
            /\ parseCalls[c] = 0

C3_Witness ==
    \E c \in Calls :
        /\ NetFailed(c) /\ httpSent[c] = 1
        /\ ret[c].err = ErrTransport /\ parseCalls[c] = 0

\* C4: when the network call succeeds and decoding fails, the envelope
\* carries the ResponseMeta of the decode step (the status of the raw
\* response, not a zero ResponseMeta) together with the decode error.
C4_DecodeErrorKeepsMeta ==
    \A c \in Calls :
        DecodeFailed(c) =>
            /\ ret[c].ResponseMeta = Decoded(c).meta
            /\ ret[c].ResponseMeta.StatusCode = netOut[c].resp.status
            /\ ret[c].ResponseMeta # ZeroMeta
            /\ ret[c].err = Decoded(c).err

C4_Witness ==
    \E c \in Calls :
        /\ DecodeFailed(c) /\ netOut[c].resp.status = StatusOK
        /\ ret[c].err = ErrDecode /\ ret[c].ResponseMeta.StatusCode = StatusOK

C6_ErrorsPassThrough ==
    \A c \in Calls :
        /\ NetFailed(c) => ret[c].err = netOut[c].err
        /\ DecodeFailed(c) => ret[c].err = Decoded(c).err
        /\ (NetFailed(c) /\ httpSent[c] = 0) => ret[c].err \in AdmissionErrs
        /\ (NetFailed(c) /\ httpSent[c] = 1) => ret[c].err \in TransportErrs
        /\ DecodeFailed(c) => ret[c].err \in DecodeErrs

C6_Witness ==
    \E c \in Calls :
        /\ NetFailed(c) /\ httpSent[c] = 1
        /\ netOut[c].err = ErrAborted /\ ret[c].err = ErrAborted

\* C7: a call performs admission, network call, decode and assembly in that
\* order, the network call and the decode at most once, and after a failed
\* step no further step.
StepOrder == <<"admission", "network", "decode", "assemble">>

Count(s, x) == Cardinality({ i \in 1..Len(s) : s[i] = x })

Local(c) ==
    <<pc[c], op[c], ctxDone[c], limited[c], req[c], granted[c], cancelledFirst[c],
      opCalls[c], httpSent[c], parseCalls[c], netOut[c], ret[c], steps[c], handle[c], seasonArg[c]>>

\* What a returned call's result is made of: its own outcome.
OwnOutcome ==
    \A c \in Calls :
        Done(c) =>
            /\ ret[c].type = EnvelopeType(op[c])
            /\ ret[c].Data \in {ZeroData, netOut[c].resp.data}
            /\ ret[c].ResponseMeta.StatusCode \in {0, netOut[c].resp.status}
            /\ ret[c].err \in {NilErr, netOut[c].err, Decoded(c).err}
            /\ ~ctxDone[c] => ret[c].err \notin {ErrCanceled, ErrAborted}
            /\ \A d \in Calls :
                  (Done(d) /\ op[d] = op[c] /\ netOut[d] = netOut[c]) => ret[d] = ret[c]

\* A step touches the state of one call at most, and never the service; what
\* else it may change is the limiter's permit count.
OneCallPerStep ==
    /\ base' = base
    /\ \A c, d \in Calls : c # d => (Local(c)' = Local(c) \/ Local(d)' = Local(d))

\* C8: with two calls running concurrently, what a call returns is made of
\* its own network and decode outcome only (two calls of the same method
\* with the same outcome return the same, and a call whose own context is
\* live gets no cancellation error), and no step of one call changes the
\* state of the other: all they share is the limiter's permit count.
C8_CallsIndependent == []OwnOutcome /\ [][OneCallPerStep]_vars

C8_Witness ==
    \E c, d \in Calls :
        /\ c # d /\ Done(c) /\ Done(d)
        /\ ret[c].err = NilErr /\ ret[d].err = NilErr
        /\ ret[c].Data # ret[d].Data
        /\ permits[TheClient] < MaxPermits

\* C9: a handle holds the id given to Season and the service's client; its
\* methods issue their request with that id on that client; the handle and
\* the service's client stay as constructed whatever calls are made.
C9_HandleImmutable ==
    /\ base = NewService(TheClient)
    /\ \A c \in Calls :
        /\ handle[c] # NoHandle =>
              /\ handle[c].id = seasonArg[c]
              /\ handle[c].id \in SeasonIds
              /\ handle[c].client = base.Client
        /\ (pc[c] # "idle" /\ op[c] \in HandleOps) =>
              /\ handle[c] # NoHandle
              /\ req[c] = [client |-> handle[c].client, endpoint |-> Endpoint(op[c]),
                           id |-> handle[c].id]
        /\ (pc[c] # "idle" /\ op[c] \in ServiceOps) =>
              req[c] = [client |-> base.Client, endpoint |-> Endpoint(op[c]), id |-> 0]

C9_Witness ==
    \E c, d \in Calls :
        /\ c # d /\ Done(c) /\ Done(d)
        /\ op[c] = "UserRank" /\ op[d] = "Rewards"
        /\ req[c].id = MaxSeasonId /\ req[d].id = 1
        /\ handle[c].id = MaxSeasonId /\ handle[d].id = 1

\* C10: the success path, which reads parsed.JSON200.Data, is reached only
\* with a non-nil JSON200: a response whose status is not 200 ends in an
\* error return carrying its ResponseMeta, never in a nil dereference or a
\* nil error.
C10_NoNilJSON200 ==
    \A c \in Calls :
        /\ pc[c] # "panicked"
        /\ (Done(c) /\ ret[c].err = NilErr) => Decoded(c).parsed.JSON200.present
        /\ (Done(c) /\ netOut[c].err = NilErr /\ netOut[c].resp.status # StatusOK) =>
              /\ ret[c].err # NilErr
              /\ ret[c].ResponseMeta.StatusCode = netOut[c].resp.status

====
